---- MODULE Spec2Model ----
(***************************************************************************)
(* DSM_DTM_extractor.py: DSM_DTMExtractor.run and selectLayer.             *)
(*                                                                         *)
(* One invocation of run() is a sequential program; pc is the statement    *)
(* about to execute.  The QGIS project, the QInputDialog answers and the   *)
(* results of the processing algorithms are the environment: the project   *)
(* is drawn in Init, a dialog answer and an algorithm's geometric result   *)
(* are drawn where the call is made.  processing.run raises on failure     *)
(* and run() catches nothing, so a raise ends the invocation.              *)
(***************************************************************************)
EXTENDS Integers, Sequences, FiniteSets, TLC

\* ------------------------------------------------------------------ bounds
MaxVectors == 3
MaxRasters == 3
MaxBands == 2
NumCRS == 2
MaxLinePoints == 2
MaxCentroids == 2

VARIABLES
    pc,                \* statement of run() about to execute
    layers,            \* QgsProject.instance().mapLayers().values()
    vector_layers,     \* run(): vector_layers
    raster_layers,     \* run(): raster_layers
    chosen,            \* run(): the four *_layer locals
    mem,               \* run(): the datasets bound to the locals of steps 1-10
    selection,         \* selected feature ids of centroids_output
    band_index,        \* run(): band_index of the loop in progress
    prompts,           \* QInputDialog.getItem dialogs shown, with the answers
    messages,          \* messageBar().pushMessage texts
    ops,               \* processing algorithms and layer methods completed
    registered         \* QgsProject.instance().addMapLayer calls

vars == <<pc, layers, vector_layers, raster_layers, chosen, mem, selection,
          band_index, prompts, messages, ops, registered>>

\* ----------------------------------------------------------------- helpers
Range(s) == {s[i] : i \in 1..Len(s)}

Last(s) == s[Len(s)]

Min(S) == CHOOSE x \in S : \A y \in S : x <= y

\* A point feature is <<layer it was made in, location>>.  The k-th point
\* along the lines and the k-th grid centroid are given the same location k,
\* so points of the two sets can coincide.
Points(made_in, n) == [k \in 1..n |-> <<made_in, k>>]

Loc(p) == p[2]

\* The locations a polygon can cover
Locs == 1..MaxCentroids

NoCRS == <<"none", 0>>

NoSrc == <<"", 0>>

NoField == <<"", 0>>

None == [id |-> NoSrc, kind |-> "None", name |-> "", crs |-> NoCRS, bands |-> 0]

NoDataset == [src |-> NoSrc, crs |-> NoCRS, pts |-> <<>>, covers |-> {}, fields |-> <<>>]

\* ----------------------------------------------------- the loaded project
\* Layer names: two distinct names, then a name that repeats an earlier one,
\* then an unnamed layer.
VectorName(i) ==
    IF i = 1 THEN "centerline"
    ELSE IF i = 2 THEN "corridor"
    ELSE IF i = 3 THEN "centerline"
    ELSE ""

RasterName(i) ==
    IF i = 1 THEN "dtm"
    ELSE IF i = 2 THEN "dsm"
    ELSE IF i = 3 THEN "ortho"
    ELSE ""

VectorLayer(i) ==
    [id |-> <<"vector", i>>, kind |-> "QgsVectorLayer", name |-> VectorName(i),
     crs |-> <<"EPSG", ((i - 1) % NumCRS) + 1>>, bands |-> 0]

RasterLayer(i) ==
    [id |-> <<"raster", i>>, kind |-> "QgsRasterLayer", name |-> RasterName(i),
     crs |-> NoCRS, bands |-> ((i - 1) % MaxBands) + 1]

Project(nv, nr) ==
    [i \in 1..(nv + nr) |-> IF i <= nv THEN VectorLayer(i) ELSE RasterLayer(i - nv)]

\* ------------------------------------------------------------ selectLayer
layer_names(ls) == [i \in 1..Len(ls) |-> ls[i].name]

\* What QInputDialog.getItem(..., layer_names, 0, False) can return: an item
\* of the list with ok, or the current (first) item without ok.
DialogAnswers(ls) ==
    {[ok |-> TRUE, selected_name |-> n] : n \in Range(layer_names(ls))}
        \cup {[ok |-> FALSE, selected_name |-> layer_names(ls)[1]]}

selectLayer(ls, answer) ==
    IF answer.ok /\ answer.selected_name # ""
    THEN ls[Min({i \in 1..Len(ls) : ls[i].name = answer.selected_name})]
    ELSE None

\* ---------------------------------------------------------- run: the guards
\* The test with "and" for "or": both kinds must be short to refuse.
NotEnoughLayers_Both(vs, rs) == Len(vs) < 2 /\ Len(rs) < 2

\* line 42
NotEnoughLayers(vs, rs) == Len(vs) < 2 \/ Len(rs) < 2

\* The test with the last selection left out of the list.
AllSelected_ThreeOnly(c) ==
    /\ c.centerline_layer # None
    /\ c.buffer_layer # None
    /\ c.dtm_raster_layer # None

\* line 52
AllSelected(c) ==
    /\ c.centerline_layer # None
    /\ c.buffer_layer # None
    /\ c.dsm_raster_layer # None
    /\ c.dtm_raster_layer # None

\* ------------------------------------------------- the engine's operations
Op(alg, input, other, crs, band, field, output) ==
    [alg |-> alg, input |-> input, other |-> other, crs |-> crs, band |-> band,
     field |-> field, output |-> output]

Dataset(src, crs, pts) ==
    [src |-> src, crs |-> crs, pts |-> pts, covers |-> {}, fields |-> <<>>]

Init ==
    /\ pc = "start"
    /\ \E nv \in 0..MaxVectors, nr \in 0..MaxRasters : layers = Project(nv, nr)
    /\ vector_layers = <<>>
    /\ raster_layers = <<>>
    /\ chosen = [centerline_layer |-> None, buffer_layer |-> None,
                 dtm_raster_layer |-> None, dsm_raster_layer |-> None]
    /\ mem = [buffer_output |-> NoDataset, poly_to_line_output |-> NoDataset,
              merge_output |-> NoDataset, points_along_output |-> NoDataset,
              grid_output |-> NoDataset, clipped_grid_output |-> NoDataset,
              centroids_output |-> NoDataset, remaining_centroids |-> NoDataset,
              merged_output |-> NoDataset, raster_values_output |-> NoDataset,
              raster_values_output_DSM |-> NoDataset]
    /\ selection = {}
    /\ band_index = 0
    /\ prompts = <<>>
    /\ messages = <<>>
    /\ ops = <<>>
    /\ registered = <<>>

\* lines 28-44: partition the project's layers, require two of each type
RunStart ==
    /\ pc = "start"
    /\ LET vs == SelectSeq(layers, LAMBDA l : l.kind = "QgsVectorLayer")
           rs == SelectSeq(layers, LAMBDA l : l.kind = "QgsRasterLayer")
       IN  /\ vector_layers' = vs
           /\ raster_layers' = rs
           /\ IF NotEnoughLayers(vs, rs)
              THEN /\ messages' = Append(messages, "Not enough layers available on the canvas!")
                   /\ pc' = "returned"
              ELSE /\ messages' = messages
                   /\ pc' = "select_centerline"
    /\ UNCHANGED <<layers, chosen, mem, selection, band_index, prompts, ops, registered>>

Prompt(at, next, ls, title, local) ==
    /\ pc = at
    /\ \E answer \in DialogAnswers(ls) :
          /\ prompts' = Append(prompts, [title |-> title, ok |-> answer.ok])
          /\ chosen' = [chosen EXCEPT ![local] = selectLayer(ls, answer)]
    /\ pc' = next
    /\ UNCHANGED <<layers, vector_layers, raster_layers, mem, selection, band_index,
                   messages, ops, registered>>

\* line 47
SelectCenterline ==
    Prompt("select_centerline", "select_buffer", vector_layers,
           "Select the Centerline Layer", "centerline_layer")

\* line 48
SelectBuffer ==
    Prompt("select_buffer", "select_dtm", vector_layers,
           "Select the Buffer Layer", "buffer_layer")

\* line 49
SelectDTM ==
    Prompt("select_dtm", "select_dsm", raster_layers,
           "Select the DTM Raster Layer", "dtm_raster_layer")

\* line 50
SelectDSM ==
    Prompt("select_dsm", "check_selection", raster_layers,
           "Select the DSM Raster Layer", "dsm_raster_layer")

\* lines 52-54
CheckSelection ==
    /\ pc = "check_selection"
    /\ IF AllSelected(chosen)
       THEN /\ messages' = messages
            /\ pc' = "step1"
       ELSE /\ messages' = Append(messages, "Layer selection was canceled.")
            /\ pc' = "returned"
    /\ UNCHANGED <<layers, vector_layers, raster_layers, chosen, mem, selection,
                   band_index, prompts, ops, registered>>

\* ------------------------------------------------- the engine's algorithms
\* A user layer as an algorithm input.
AsDataset(layer) == Dataset(layer.id, layer.crs, <<>>)

Concat(dss) ==
    LET F[i \in 0..Len(dss)] == IF i = 0 THEN <<>> ELSE F[i - 1] \o dss[i].pts
    IN  F[Len(dss)]

\* native:mergevectorlayers: every feature of every layer, in layer order,
\* in the CRS given.
mergevectorlayers(LAYERS, CRS, out) == Dataset(out, CRS, Concat(LAYERS))

\* qgis:selectbylocation, PREDICATE [0] (intersects), METHOD 0 (new selection)
selectbylocation(INPUT, INTERSECT) ==
    {i \in 1..Len(INPUT.pts) : Loc(INPUT.pts[i]) \in INTERSECT.covers}

\* The inversion lost: the selection stays as select-by-location made it.
invertSelection_Lost(layer, selected) == selected

\* QgsVectorLayer.invertSelection
invertSelection(layer, selected) == (1..Len(layer.pts)) \ selected

\* The selection left in place.
removeSelection_Kept(selected) == selected

\* QgsVectorLayer.removeSelection
removeSelection(selected) == {}

\* native:saveselectedfeatures: the selected features, in layer order
saveselectedfeatures(INPUT, selected, out) ==
    LET F[i \in 0..Len(INPUT.pts)] ==
            IF i = 0 THEN <<>>
            ELSE IF i \in selected THEN Append(F[i - 1], INPUT.pts[i]) ELSE F[i - 1]
    IN  Dataset(out, INPUT.crs, F[Len(INPUT.pts)])

\* sagang:addrastervaluestopoints: SHAPES with one more attribute, FIELD,
\* written to RESULT
addrastervaluestopoints(SHAPES, FIELD, RESULT) ==
    [SHAPES EXCEPT !.src = RESULT, !.fields = Append(@, FIELD)]

\* -------------------------------------------------- run: steps 1 to 10
Others == <<layers, vector_layers, raster_layers, chosen, prompts, messages>>

\* lines 58-67
Step1Buffer ==
    /\ pc = "step1"
    /\ \E covers \in SUBSET Locs :
          mem' = [mem EXCEPT !.buffer_output =
                     [Dataset(<<"buffer_output", 0>>, chosen.centerline_layer.crs, <<>>)
                         EXCEPT !.covers = covers]]
    /\ ops' = Append(ops, Op("native:buffer", chosen.centerline_layer.id, NoSrc, NoCRS,
                             0, NoField, <<"buffer_output", 0>>))
    /\ pc' = "step2"
    /\ UNCHANGED <<Others, selection, band_index, registered>>

\* lines 70-73
Step2PolygonsToLines ==
    /\ pc = "step2"
    /\ mem' = [mem EXCEPT !.poly_to_line_output =
                  Dataset(<<"poly_to_line_output", 0>>, mem.buffer_output.crs, <<>>)]
    /\ ops' = Append(ops, Op("native:polygonstolines", mem.buffer_output.src, NoSrc, NoCRS,
                             0, NoField, <<"poly_to_line_output", 0>>))
    /\ pc' = "step3"
    /\ UNCHANGED <<Others, selection, band_index, registered>>

\* lines 76-80
Step3Merge ==
    /\ pc = "step3"
    /\ LET LAYERS == <<mem.poly_to_line_output, AsDataset(chosen.centerline_layer)>>
           CRS == chosen.centerline_layer.crs
       IN  /\ mem' = [mem EXCEPT !.merge_output =
                         mergevectorlayers(LAYERS, CRS, <<"merge_output", 0>>)]
           /\ ops' = Append(ops, Op("native:mergevectorlayers", LAYERS[1].src, LAYERS[2].src,
                                    CRS, 0, NoField, <<"merge_output", 0>>))
    /\ pc' = "step4"
    /\ UNCHANGED <<Others, selection, band_index, registered>>

\* lines 83-89
Step4PointsAlongLines ==
    /\ pc = "step4"
    /\ \E n \in 0..MaxLinePoints :
          mem' = [mem EXCEPT !.points_along_output =
                     Dataset(<<"points_along_output", 0>>, mem.merge_output.crs,
                             Points("line", n))]
    /\ ops' = Append(ops, Op("native:pointsalonglines", mem.merge_output.src, NoSrc, NoCRS,
                             0, NoField, <<"points_along_output", 0>>))
    /\ pc' = "step5_grid"
    /\ UNCHANGED <<Others, selection, band_index, registered>>

\* line 99
GridCRS == chosen.buffer_layer.crs

\* lines 92-101
Step5CreateGrid ==
    /\ pc = "step5_grid"
    /\ mem' = [mem EXCEPT !.grid_output = Dataset(<<"grid_output", 0>>, GridCRS, <<>>)]
    /\ ops' = Append(ops, Op("native:creategrid", chosen.buffer_layer.id, NoSrc, GridCRS,
                             0, NoField, <<"grid_output", 0>>))
    /\ pc' = "step5_clip"
    /\ UNCHANGED <<Others, selection, band_index, registered>>

\* lines 103-107
Step5Clip ==
    /\ pc = "step5_clip"
    /\ mem' = [mem EXCEPT !.clipped_grid_output =
                  Dataset(<<"clipped_grid_output", 0>>, mem.grid_output.crs, <<>>)]
    /\ ops' = Append(ops, Op("native:clip", mem.grid_output.src, chosen.buffer_layer.id,
                             NoCRS, 0, NoField, <<"clipped_grid_output", 0>>))
    /\ pc' = "step6"
    /\ UNCHANGED <<Others, selection, band_index, registered>>

\* lines 110-114
Step6Centroids ==
    /\ pc = "step6"
    /\ \E n \in 0..MaxCentroids :
          mem' = [mem EXCEPT !.centroids_output =
                     Dataset(<<"centroids_output", 0>>, mem.clipped_grid_output.crs,
                             Points("grid", n))]
    /\ ops' = Append(ops, Op("native:centroids", mem.clipped_grid_output.src, NoSrc, NoCRS,
                             0, NoField, <<"centroids_output", 0>>))
    /\ pc' = "step7_select"
    /\ UNCHANGED <<Others, selection, band_index, registered>>

\* line 120
Step7Intersect == mem.buffer_output

\* lines 117-122
Step7SelectByLocation ==
    /\ pc = "step7_select"
    /\ selection' = selectbylocation(mem.centroids_output, Step7Intersect)
    /\ ops' = Append(ops, Op("qgis:selectbylocation", mem.centroids_output.src,
                             Step7Intersect.src, NoCRS, 0, NoField, NoSrc))
    /\ pc' = "step7_invert"
    /\ UNCHANGED <<Others, mem, band_index, registered>>

\* line 125
Step7InvertSelection ==
    /\ pc = "step7_invert"
    /\ selection' = invertSelection(mem.centroids_output, selection)
    /\ ops' = Append(ops, Op("invertSelection", mem.centroids_output.src, NoSrc, NoCRS,
                             0, NoField, NoSrc))
    /\ pc' = "step7_save"
    /\ UNCHANGED <<Others, mem, band_index, registered>>

\* lines 128-131
Step7SaveSelected ==
    /\ pc = "step7_save"
    /\ mem' = [mem EXCEPT !.remaining_centroids =
                  saveselectedfeatures(mem.centroids_output, selection,
                                       <<"remaining_centroids", 0>>)]
    /\ ops' = Append(ops, Op("native:saveselectedfeatures", mem.centroids_output.src, NoSrc,
                             NoCRS, 0, NoField, <<"remaining_centroids", 0>>))
    /\ pc' = "step7_clear"
    /\ UNCHANGED <<Others, selection, band_index, registered>>

\* line 134
Step7RemoveSelection ==
    /\ pc = "step7_clear"
    /\ selection' = removeSelection(selection)
    /\ ops' = Append(ops, Op("removeSelection", mem.centroids_output.src, NoSrc, NoCRS,
                             0, NoField, NoSrc))
    /\ pc' = "step8"
    /\ UNCHANGED <<Others, mem, band_index, registered>>

\* The merge given the line sampler's points only.
Step8Layers_LineOnly == <<mem.points_along_output>>

\* line 138
Step8Layers == <<mem.points_along_output, mem.remaining_centroids>>

\* lines 137-141, and the loop header of line 147
Step8Merge ==
    /\ pc = "step8"
    /\ LET CRS == mem.points_along_output.crs
       IN  /\ mem' = [mem EXCEPT !.merged_output =
                         mergevectorlayers(Step8Layers, CRS, <<"merged_output", 0>>)]
           /\ ops' = Append(ops, Op("native:mergevectorlayers", Step8Layers[1].src,
                                    Last(Step8Layers).src, CRS, 0, NoField,
                                    <<"merged_output", 0>>))
    /\ band_index' = 1
    /\ pc' = "step9"
    /\ UNCHANGED <<Others, selection, registered>>

\* line 152
Step9Shapes == mem.merged_output

\* lines 147-161: one iteration of the DTM band loop
Step9SampleDTM ==
    /\ pc = "step9"
    /\ LET field_name == <<"DTM_Band_", band_index>>
           path == <<"raster_values_output_DTM_band_", band_index>>
           out == addrastervaluestopoints(Step9Shapes, field_name, path)
       IN  /\ mem' = [mem EXCEPT !.raster_values_output = out]
           /\ ops' = Append(ops, Op("sagang:addrastervaluestopoints", Step9Shapes.src,
                                    chosen.dtm_raster_layer.id, NoCRS, band_index,
                                    field_name, path))
           /\ registered' = Append(registered,
                                   [name |-> <<"DTM_Band_", band_index>>, layer |-> out])
    /\ IF band_index < chosen.dtm_raster_layer.bands
       THEN /\ band_index' = band_index + 1
            /\ pc' = "step9"
       ELSE /\ band_index' = 1
            /\ pc' = "step10"
    /\ UNCHANGED <<Others, selection>>

\* line 171
Step10Shapes == mem.raster_values_output

\* lines 166-180: one iteration of the DSM band loop
Step10SampleDSM ==
    /\ pc = "step10"
    /\ LET field_name_dsm == <<"DSM_Band_", band_index>>
           path == <<"raster_values_output_DSM_band_", band_index>>
           out == addrastervaluestopoints(Step10Shapes, field_name_dsm, path)
       IN  /\ mem' = [mem EXCEPT !.raster_values_output_DSM = out]
           /\ ops' = Append(ops, Op("sagang:addrastervaluestopoints", Step10Shapes.src,
                                    chosen.dsm_raster_layer.id, NoCRS, band_index,
                                    field_name_dsm, path))
           /\ registered' = Append(registered, [name |-> <<"+_DSM", 0>>, layer |-> out])
    /\ IF band_index < chosen.dsm_raster_layer.bands
       THEN /\ band_index' = band_index + 1
            /\ pc' = "step10"
       ELSE /\ band_index' = band_index
            /\ pc' = "done"
    /\ UNCHANGED <<Others, selection>>

\* The statements of run() that call processing.run
ProcessingCalls ==
    {"step1", "step2", "step3", "step4", "step5_grid", "step5_clip", "step6",
     "step7_select", "step7_save", "step8", "step9", "step10"}

\* processing.run raises (QgsProcessingException); run() has no handler
ProcessingRaises ==
    /\ pc \in ProcessingCalls
    /\ pc' = "raised"
    /\ UNCHANGED <<Others, mem, selection, band_index, ops, registered>>

Next ==
    \/ RunStart
    \/ SelectCenterline
    \/ SelectBuffer
    \/ SelectDTM
    \/ SelectDSM
    \/ CheckSelection
    \/ Step1Buffer
    \/ Step2PolygonsToLines
    \/ Step3Merge
    \/ Step4PointsAlongLines
    \/ Step5CreateGrid
    \/ Step5Clip
    \/ Step6Centroids
    \/ Step7SelectByLocation
    \/ Step7InvertSelection
    \/ Step7SaveSelected
    \/ Step7RemoveSelection
    \/ Step8Merge
    \/ Step9SampleDTM
    \/ Step10SampleDSM
    \/ ProcessingRaises

Spec == Init /\ [][Next]_vars

\* ------------------------------------------------------------- the claims
Terminal == {"returned", "raised", "done"}

NumOfKind(k) == Cardinality({i \in DOMAIN layers : layers[i].kind = k})

Cancelled == \E i \in 1..Len(prompts) : ~prompts[i].ok

Sampling(i) == ops[i].alg = "sagang:addrastervaluestopoints"

\* C1: a run in a project with fewer than 2 vector layers or fewer than 2
\* raster layers returns with the not-enough-layers message, having shown no
\* prompt, run no operation and registered no dataset.
C1_InsufficientInputsAbort ==
    (pc # "start" /\ (NumOfKind("QgsVectorLayer") < 2 \/ NumOfKind("QgsRasterLayer") < 2))
        => /\ pc = "returned"
           /\ messages = <<"Not enough layers available on the canvas!">>
           /\ prompts = <<>>
           /\ ops = <<>>
           /\ registered = <<>>

C1_Witness ==
    /\ pc = "returned"
    /\ NumOfKind("QgsVectorLayer") = 1
    /\ NumOfKind("QgsRasterLayer") = 3

\* C2: once any of the four selection prompts has been cancelled, the run
\* executes no operation, takes no raster sample and registers no dataset,
\* and it ends by returning after the fourth prompt.
C2_CancelNoSideEffects ==
    Cancelled
        => /\ ops = <<>>
           /\ registered = <<>>
           /\ pc \in {"select_buffer", "select_dtm", "select_dsm", "check_selection",
                      "returned"}
           /\ pc = "returned" => messages = <<"Layer selection was canceled.">>

C2_Witness ==
    /\ pc = "returned"
    /\ Len(prompts) = 4
    /\ ~prompts[2].ok
    /\ prompts[1].ok /\ prompts[3].ok /\ prompts[4].ok

\* C3 (as claimed): a run that a failing operation aborted has registered no
\* dataset.
C3_NoRegistrationOnFailure == pc = "raised" => registered = <<>>

ExpectedFields ==
    {<<"DTM_Band_", k>> : k \in 1..chosen.dtm_raster_layer.bands}
        \cup {<<"DSM_Band_", k>> : k \in 1..chosen.dsm_raster_layer.bands}

\* C4 (as claimed): the last dataset of a completed run carries exactly
\* B1 + B2 raster attributes, DTM_Band_1..B1 and DSM_Band_1..B2.
C4_TerminalAttributes ==
    pc = "done"
        => /\ Len(Last(registered).layer.fields)
                = chosen.dtm_raster_layer.bands + chosen.dsm_raster_layer.bands
           /\ Range(Last(registered).layer.fields) = ExpectedFields

\* C5 (as claimed): band k > 1 of a raster is sampled onto the output of band
\* k - 1 of that raster, the first DSM band onto the output of the last DTM
\* band, and no DSM band before every DTM band.
C5_BandChain ==
    \A i \in 1..Len(ops) :
        Sampling(i) =>
            /\ ops[i].band > 1 =>
                  /\ Sampling(i - 1)
                  /\ ops[i - 1].other = ops[i].other
                  /\ ops[i - 1].band = ops[i].band - 1
                  /\ ops[i].input = ops[i - 1].output
            /\ (ops[i].field[1] = "DSM_Band_" /\ ops[i].band = 1) =>
                  /\ Sampling(i - 1)
                  /\ ops[i - 1].field = <<"DTM_Band_", chosen.dtm_raster_layer.bands>>
                  /\ ops[i].input = ops[i - 1].output
            /\ ops[i].field[1] = "DTM_Band_" =>
                  \A j \in 1..i : Sampling(j) => ops[j].field[1] = "DTM_Band_"

NotIntersecting ==
    SelectSeq(mem.centroids_output.pts, LAMBDA p : Loc(p) \notin mem.buffer_output.covers)

\* C6: the saved remaining centroids are exactly the grid centroids that do
\* not intersect the polygon buffered from the centerline (buffer_output), in
\* their order, and select-by-location was given that polygon.
C6_RemainingDisjoint ==
    mem.remaining_centroids # NoDataset
        => /\ \A p \in Range(mem.remaining_centroids.pts) :
                 Loc(p) \notin mem.buffer_output.covers
           /\ mem.remaining_centroids.pts = NotIntersecting
           /\ \A i \in 1..Len(ops) :
                 ops[i].alg = "qgis:selectbylocation"
                     => /\ ops[i].input = <<"centroids_output", 0>>
                        /\ ops[i].other = <<"buffer_output", 0>>

C6_Witness ==
    /\ mem.remaining_centroids # NoDataset
    /\ mem.remaining_centroids.pts # <<>>
    /\ Len(mem.remaining_centroids.pts) < Len(mem.centroids_output.pts)

\* C7 (as claimed): every CRS parameter passed to an operation is the
\* centerline layer's CRS.
C7_OneCRS ==
    \A i \in 1..Len(ops) : ops[i].crs # NoCRS => ops[i].crs = chosen.centerline_layer.crs

\* C8 (as claimed): no prompt is shown after a cancelled one.
C8_NoPromptAfterCancel == \A i \in 1..(Len(prompts) - 1) : prompts[i].ok

\* C9: the merged point set is the line sampler's points followed by the
\* remaining centroids, all of them, and every registered dataset has the
\* merged set's points in the merged set's order.
C9_MergeKeepsAll ==
    mem.merged_output # NoDataset
        => /\ Len(mem.merged_output.pts)
                = Len(mem.points_along_output.pts) + Len(mem.remaining_centroids.pts)
           /\ mem.merged_output.pts
                = mem.points_along_output.pts \o mem.remaining_centroids.pts
           /\ \A i \in 1..Len(registered) :
                 registered[i].layer.pts = mem.merged_output.pts

C9_Witness ==
    /\ pc = "done"
    /\ Len(registered) >= 2
    /\ \E i \in 1..Len(mem.points_along_output.pts),
          j \in 1..Len(mem.remaining_centroids.pts) :
            Loc(mem.points_along_output.pts[i]) = Loc(mem.remaining_centroids.pts[j])

StageOrder ==
    <<"native:buffer", "native:polygonstolines", "native:mergevectorlayers",
      "native:pointsalonglines", "native:creategrid", "native:clip", "native:centroids",
      "qgis:selectbylocation", "invertSelection", "native:saveselectedfeatures",
      "removeSelection", "native:mergevectorlayers">>

UserLayers == {layers[i].id : i \in DOMAIN layers}

InOrder ==
    /\ \A i \in 1..Len(ops) :
          /\ IF i <= Len(StageOrder) THEN ops[i].alg = StageOrder[i] ELSE Sampling(i)
          /\ \A s \in {ops[i].input, ops[i].other} :
                s \in UserLayers \cup {NoSrc} \cup {ops[j].output : j \in 1..(i - 1)}
    /\ pc \in {"step8", "step9", "step10", "done"} => selection = {}

====
